---------------------------- MODULE Spec2Model ----------------------------
(***************************************************************************)
(* A model of toroid's Donut (src/src/lib.rs): the orientation fields,     *)
(* rotate, and render_frame_in_place with its two nested sweep loops, the  *)
(* projection, the depth test and the brightness ramp.                     *)
(*                                                                         *)
(* Numbers.  The program computes in f32.  The model computes in a scaled  *)
(* decimal format: an integer v stands for the number v / Scale, every     *)
(* operation rounds its result to the nearest 1 / Scale, a result of       *)
(* magnitude FMax / Scale or more is an infinity and 0 * infinity or       *)
(* infinity - infinity is NaN, as in IEEE arithmetic.  The format is       *)
(* coarser and narrower than f32 (TLC's integers have 32 bits); the order  *)
(* of the operations is the source's.                                      *)
(***************************************************************************)
EXTENDS Integers, Sequences, FiniteSets

VARIABLES
    cfg,        \* the const generic parameters of this Donut type
    a_cos, a_sin, b_cos, b_sin,     \* the fields of the Donut
    output, zbuf,                   \* the caller's two buffers
    pc,         \* where render_frame_in_place is: "idle" | "render" | "done";
                \* "panic" after an index out of the ramp's range
    jn, i_n,    \* the counters of the two `for _ in 0..NUM` loops
    j_cos, j_sin, i_cos, i_sin,     \* the locals of render_frame_in_place
    rotations,  \* history: number of rotate calls made
    smallOnly,  \* history: every rotate call so far had small deltas
    zeroRun,    \* history: number of rotate(0, 0) calls made in a row just now
    zeroRef,    \* history: the orientation before that run of rotate(0, 0)
    entry,      \* history: the buffers as the running render call found them
    log,        \* history: the samples of the running render call, in sweep order
    twin        \* a second Donut of the same type with its own buffers

vars == <<cfg, a_cos, a_sin, b_cos, b_sin, output, zbuf, pc, jn, i_n,
          j_cos, j_sin, i_cos, i_sin, rotations, smallOnly, zeroRun, zeroRef,
          entry, log, twin>>

-----------------------------------------------------------------------------
(* The number format *)

Scale == 10^6
Half  == 10^3               \* Scale = Half * Half
FMax  == 10^9               \* magnitudes from FMax on are infinite
INF   == FMax
NAN   == 2 * FMax
IsizeMax == 2147483647      \* what a cast of +infinity saturates to

Abs(v) == IF v < 0 THEN -v ELSE v
Sgn(v) == IF v < 0 THEN -1 ELSE 1
IsNaN(v) == v = NAN
IsInf(v) == v = INF \/ v = -INF
Lit(whole, millionths) == whole * Scale + millionths

\* whole * Scale + rest for whole, rest >= 0; FMax on overflow.
Joined(whole, rest) ==
    IF whole >= FMax \div Scale \/ rest >= FMax THEN FMax
    ELSE IF whole * Scale + rest >= FMax THEN FMax
    ELSE whole * Scale + rest

\* aF * bF / Scale for 0 <= aF, bF < Scale, rounded to nearest, from the two
\* halves of each (the product itself has more than 32 bits).
MulLow(aM, aL, bM, bL) ==
    aM * bM + (((aM * bL + aL * bM) * Half + aL * bL) + Scale \div 2) \div Scale

\* (aH + aF / Scale) * (bH + bF / Scale) from the whole and the fraction of each.
MulParts(aH, aF, bH, bF) ==
    Joined(aH * bH,
           aH * bF + aF * bH + MulLow(aF \div Half, aF % Half, bF \div Half, bF % Half))

\* |a| * |b| / Scale for finite a, b, rounded to nearest; FMax on overflow.
MulMag(a, b) == MulParts(a \div Scale, a % Scale, b \div Scale, b % Scale)

FMul(a, b) ==
    IF IsNaN(a) \/ IsNaN(b) THEN NAN
    ELSE IF (IsInf(a) /\ b = 0) \/ (IsInf(b) /\ a = 0) THEN NAN
    ELSE IF IsInf(a) \/ IsInf(b) THEN Sgn(a) * Sgn(b) * INF
    ELSE Sgn(a) * Sgn(b) * MulMag(Abs(a), Abs(b))

FAdd(a, b) ==
    IF IsNaN(a) \/ IsNaN(b) THEN NAN
    ELSE IF IsInf(a) /\ IsInf(b) THEN (IF a = b THEN a ELSE NAN)
    ELSE IF IsInf(a) THEN a
    ELSE IF IsInf(b) THEN b
    ELSE IF a + b >= FMax THEN INF
    ELSE IF a + b <= -FMax THEN -INF
    ELSE a + b

FNeg(a) == IF IsNaN(a) THEN NAN ELSE -a
FSub(a, b) == FAdd(a, FNeg(b))

\* The k decimal digits of r / b after the point (0 <= r < b), the last rounded.
RECURSIVE DivDigits(_, _, _)
DivDigits(r, b, k) ==
    IF k = 0 THEN (IF 2 * r >= b THEN 1 ELSE 0)
    ELSE ((10 * r) \div b) * 10^(k - 1) + DivDigits((10 * r) % b, b, k - 1)

\* |a| / |b| for finite a and b > 0; FMax on overflow.
DivMag(a, b) ==
    IF b > 2 * 10^8 THEN (a \div (b \div Half)) * Half
    ELSE Joined(a \div b, DivDigits(a % b, b, 6))

FDiv(a, b) ==
    IF IsNaN(a) \/ IsNaN(b) THEN NAN
    ELSE IF IsInf(a) /\ IsInf(b) THEN NAN
    ELSE IF IsInf(a) THEN Sgn(a) * Sgn(b) * INF
    ELSE IF IsInf(b) THEN 0
    ELSE IF b = 0 THEN (IF a = 0 THEN NAN ELSE Sgn(a) * INF)
    ELSE Sgn(a) * Sgn(b) * DivMag(Abs(a), Abs(b))

\* `a > b` on floats: false when either is NaN.
FGt(a, b) == ~IsNaN(a) /\ ~IsNaN(b) /\ a > b

\* `v as isize` / `v as usize`: truncates toward zero, saturates, NaN is 0.
ToIsize(v) ==
    IF IsNaN(v) THEN 0
    ELSE IF v = INF THEN IsizeMax
    ELSE IF v = -INF THEN -IsizeMax
    ELSE Sgn(v) * (Abs(v) \div Scale)

\* `n as f32` for a small integer n.
ToF32(n) == n * Scale


-----------------------------------------------------------------------------
(* The configuration: the const generic parameters and the associated consts *)

TAU == 6283185              \* core::f32::consts::TAU

BRIGHTNESS_RAMP == <<" ", ".", ",", "-", "~", ":", ";", "=", "!", "*", "#", "$", "@">>

Config(w, h, vd, bf, jv, jd, iv, id) ==
    [WIDTH |-> w, HEIGHT |-> h, VIEWER_DISTANCE |-> vd, BRIGHTNESS_FACTOR |-> bf,
     J_STEP_VALUE |-> jv, J_STEP_DENOM |-> jd, I_STEP_VALUE |-> iv, I_STEP_DENOM |-> id]

\* The Donut types of the model: a small grid swept in steps of one radian; the
\* same with the viewer inside the torus' reach and a high brightness factor;
\* one whose tube step is 7 radians, given with denominator 0; one whose tube
\* step is 0.
CfgSmall == Config(8, 4, 5, 8, 1, 1, 1, 1)
CfgNear  == Config(8, 4, 1, 40, 1, 1, 1, 1)
CfgWide  == Config(8, 4, 5, 8, 7, 0, 1, 1)
CfgZero  == Config(8, 4, 5, 8, 0, 100, 1, 1)
Configs  == {CfgSmall, CfgNear, CfgWide, CfgZero}

StepOf(value, denom) ==
    IF denom = 0 \/ denom = 1 THEN ToF32(value)
    ELSE FDiv(ToF32(value), ToF32(denom))

J_STEP(c) == StepOf(c.J_STEP_VALUE, c.J_STEP_DENOM)
I_STEP(c) == StepOf(c.I_STEP_VALUE, c.I_STEP_DENOM)

\* ceil(TAU / step) as the const block computes it.  TAU / 0 is +infinity, the
\* cast saturates to usize::MAX and `n + 1` overflows: the constant fails to
\* evaluate and no function that uses it compiles.  -1 stands for that.
CeilFrom(x, n) ==
    IF x = INF THEN -1
    ELSE IF FGt(x, ToF32(n)) THEN n + 1 ELSE n

ToUsize(x) == IF ToIsize(x) < 0 THEN 0 ELSE ToIsize(x)

Ceil(x) == CeilFrom(x, ToUsize(x))

NumOf(step) == Ceil(FDiv(TAU, step))

NUM_J(c) == NumOf(J_STEP(c))
NUM_I(c) == NumOf(I_STEP(c))

X_CENTER(c) == FDiv(ToF32(c.WIDTH), Lit(2, 0))
Y_CENTER(c) == FDiv(ToF32(c.HEIGHT), Lit(2, 0))
X_SCALE(c) == FMul(Lit(30, 0), FDiv(ToF32(c.WIDTH), Lit(80, 0)))
Y_SCALE(c) == FMul(Lit(15, 0), FDiv(ToF32(c.HEIGHT), Lit(22, 0)))

Cells(c) == 0 .. (c.WIDTH * c.HEIGHT - 1)

-----------------------------------------------------------------------------
(* rotate *)

\* `cos *= norm; sin *= norm;`
Scaled(cs, sn, norm) == <<FMul(cs, norm), FMul(sn, norm)>>

\* `let norm = (3.0 - (cos * cos + sin * sin)) / 2.0;`
NormOf(cs, sn) ==
    FDiv(FSub(Lit(3, 0), FAdd(FMul(cs, cs), FMul(sn, sn))), Lit(2, 0))

\* The pair left as the recurrence gives it: what C5 must tell from the code's.
Unnormalised(cs, sn) == <<cs, sn>>

Renormalised(cs, sn) == Scaled(cs, sn, NormOf(cs, sn))

\* One step of the recurrence on a (cos, sin) pair, with its renormalisation.
Advance(cs, sn, delta) ==
    Renormalised(FSub(cs, FMul(delta, sn)), FAdd(sn, FMul(delta, cs)))

Orientation(ac, as, bc, bs) == [a_cos |-> ac, a_sin |-> as, b_cos |-> bc, b_sin |-> bs]

OfPairs(a, b) == Orientation(a[1], a[2], b[1], b[2])

\* The fields after rotate(da, db).
Rotated(o, da, db) ==
    OfPairs(Advance(o.a_cos, o.a_sin, da), Advance(o.b_cos, o.b_sin, db))

\* Donut::new()
NewDonut == Orientation(Lit(1, 0), 0, Lit(1, 0), 0)


-----------------------------------------------------------------------------
(* render_frame_in_place *)

\* Fills that leave the buffer, or all of it but the first cell, as it was:
\* what C2, C6 and C8 must tell from the code's.
FillOutputKept(out) == out
FillZbufKept(z) == z
FillZbufFirst(z) == [k \in DOMAIN z |-> IF k = 0 THEN 0 ELSE z[k]]

FillOutput(out) == [k \in DOMAIN out |-> BRIGHTNESS_RAMP[1]]
FillZbuf(z) == [k \in DOMAIN z |-> 0]

\* The locals of the sweep: the loop counters and the two (cos, sin) pairs.
Locals(nj, ni, jc, js, ic, is) ==
    [jn |-> nj, i_n |-> ni, j_cos |-> jc, j_sin |-> js, i_cos |-> ic, i_sin |-> is]

FirstLocals == Locals(0, 0, Lit(1, 0), 0, Lit(1, 0), 0)

\* The sample at the locals l under orientation o: its closeness d, its
\* projection (px, py) as a float and (x, y) as cast to isize.
Projected(d, px, py) ==
    [d |-> d, px |-> px, py |-> py, x |-> ToIsize(px), y |-> ToIsize(py)]

Project(c, o, l, h, t, d) ==
    Projected(d,
        FAdd(X_CENTER(c),
             FMul(FMul(X_SCALE(c), d),
                  FSub(FMul(FMul(l.i_cos, h), o.b_cos), FMul(t, o.b_sin)))),
        FAdd(Y_CENTER(c),
             FMul(FMul(Y_SCALE(c), d),
                  FAdd(FMul(FMul(l.i_cos, h), o.b_sin), FMul(t, o.b_cos)))))

SampleOn(c, o, l, h) ==
    Project(c, o, l, h,
        FSub(FMul(FMul(l.i_sin, h), o.a_cos), FMul(l.j_sin, o.a_sin)),
        FDiv(Lit(1, 0),
             FAdd(FAdd(FMul(FMul(l.i_sin, h), o.a_sin), FMul(l.j_sin, o.a_cos)),
                  ToF32(c.VIEWER_DISTANCE))))

Sample(c, o, l) == SampleOn(c, o, l, FAdd(l.j_cos, Lit(2, 0)))

InGrid(c, s) == s.x >= 0 /\ s.x < c.WIDTH /\ s.y >= 0 /\ s.y < c.HEIGHT

CellOf(c, s) == s.y * c.WIDTH + s.x

\* Depth tests that let every sample through, or let ties through: what C1 and
\* C9 must tell from the code's.
DepthTestOff(d, stored) == ~IsNaN(d)
DepthTestLoose(d, stored) == ~FGt(stored, d)

DepthTest(d, stored) == FGt(d, stored)

\* The luminance of the sample, scaled and truncated: `n`.
Luminance(c, o, l) ==
    ToIsize(FMul(ToF32(c.BRIGHTNESS_FACTOR),
        FSub(FSub(FSub(
            FMul(FSub(FMul(l.j_sin, o.a_sin), FMul(FMul(l.i_sin, l.j_cos), o.a_cos)), o.b_cos),
            FMul(FMul(l.i_sin, l.j_cos), o.a_sin)),
            FMul(l.j_sin, o.a_cos)),
            FMul(FMul(l.i_cos, l.j_cos), o.b_sin))))

\* A clamp from above only: what C3 must tell from the code's.
ClampAbove(n) == IF n > 12 THEN 12 ELSE n

\* n.clamp(0, 12)
Clamp(n) == IF n < 0 THEN 0 ELSE IF n > 12 THEN 12 ELSE n

\* What one pass of the inner loop's body records about its sample: the cell it
\* maps to (-1: outside the grid), whether it won the depth test, and then the
\* truncated luminance n and the ramp index n.clamp(0, 12) it used.
Recorded(s, cell, won, n) ==
    [cell |-> cell, d |-> s.d, px |-> s.px, py |-> s.py, won |-> won,
     n |-> IF won THEN n ELSE 0, index |-> IF won THEN Clamp(n) ELSE 0]

RecordAt(c, o, l, z, s, cell) ==
    Recorded(s, cell, cell >= 0 /\ DepthTest(s.d, z[cell]), Luminance(c, o, l))

RecordOf(c, o, l, z, s) ==
    RecordAt(c, o, l, z, s, IF InGrid(c, s) THEN CellOf(c, s) ELSE -1)

Record(c, o, l, z) == RecordOf(c, o, l, z, Sample(c, o, l))

\* `BRIGHTNESS_RAMP[index]` panics when index is out of range.
InRamp(index) == index >= 0 /\ index < Len(BRIGHTNESS_RAMP)

PlotZbuf(z, r) == IF r.won THEN [z EXCEPT ![r.cell] = r.d] ELSE z

PlotOutput(out, r) ==
    IF r.won /\ InRamp(r.index)
    THEN [out EXCEPT ![r.cell] = BRIGHTNESS_RAMP[r.index + 1]]
    ELSE out

WithI(l, i) == Locals(l.jn, l.i_n + 1, l.j_cos, l.j_sin, i[1], i[2])
WithJ(l, j) == Locals(l.jn + 1, 0, j[1], j[2], Lit(1, 0), 0)

\* The locals after the inner loop's body: i advances; at the end of the inner
\* loop j advances and the next pass of the outer loop resets i.
NextLocals(c, l) ==
    IF l.i_n + 1 < NUM_I(c)
    THEN WithI(l, Advance(l.i_cos, l.i_sin, I_STEP(c)))
    ELSE WithJ(l, Advance(l.j_cos, l.j_sin, J_STEP(c)))

Panics(r) == r.won /\ ~InRamp(r.index)

\* The locals and the buffers in the course of a call.
Pass(l, out, z, panicked) == [l |-> l, output |-> out, zbuf |-> z, panicked |-> panicked]

PassWith(c, p, r) ==
    IF Panics(r) THEN Pass(p.l, p.output, PlotZbuf(p.zbuf, r), TRUE)
    ELSE Pass(NextLocals(c, p.l), PlotOutput(p.output, r), PlotZbuf(p.zbuf, r), FALSE)

\* One pass of the inner loop's body, and the loops' bookkeeping after it.
NextPass(c, o, p) ==
    IF p.panicked \/ p.l.jn >= NUM_J(c) THEN p
    ELSE PassWith(c, p, Record(c, o, p.l, p.zbuf))

\* The inner loop, from the pass p at its start.
InnerLoop(c, o, p) ==
    IF p.panicked THEN p
    ELSE LET pass[k \in Nat] == IF k = 0 THEN p ELSE NextPass(c, o, pass[k - 1])
         IN  pass[NUM_I(c)]

\* The whole call on the caller's buffers out and z: the fills, then the outer
\* loop.
RenderFrame(c, o, out, z) ==
    LET row[k \in Nat] ==
            IF k = 0 THEN Pass(FirstLocals, FillOutput(out), FillZbuf(z), FALSE)
            ELSE InnerLoop(c, o, row[k - 1])
    IN  row[NUM_J(c)]

-----------------------------------------------------------------------------
(* The callers *)

MaxRotations == 2
MaxSpins == 5
MaxPairRotations == 2

\* The (da, db) a caller passes: none, the example's, the benchmark's largest.
DeltaPairs == {<<0, 0>>, <<Lit(0, 70000), Lit(0, 30000)>>, <<Lit(1, 0), Lit(1, 0)>>}

SmallDelta == Lit(0, 100000)
IsSmall(p) == Abs(p[1]) <= SmallDelta /\ Abs(p[2]) <= SmallDelta

\* What a caller's buffers hold before the first call: the example's blanks
\* and zeros, or anything else.
CleanBuffers(c) == [output |-> [k \in Cells(c) |-> " "], zbuf |-> [k \in Cells(c) |-> 0]]
JunkBuffers(c)  == [output |-> [k \in Cells(c) |-> "x"], zbuf |-> [k \in Cells(c) |-> Lit(9, 0)]]
CallerBuffers(c) == {CleanBuffers(c), JunkBuffers(c)}

NoBuffers == [output |-> <<>>, zbuf |-> <<>>]
NoTwin == [o |-> NewDonut, output |-> <<>>, zbuf |-> <<>>, fresh |-> FALSE]

Self == Orientation(a_cos, a_sin, b_cos, b_sin)
Here == Locals(jn, i_n, j_cos, j_sin, i_cos, i_sin)

SetLocals(l) ==
    /\ jn' = l.jn
    /\ i_n' = l.i_n
    /\ j_cos' = l.j_cos
    /\ j_sin' = l.j_sin
    /\ i_cos' = l.i_cos
    /\ i_sin' = l.i_sin

InitWith(bufs, t) ==
    /\ a_cos = NewDonut.a_cos
    /\ a_sin = NewDonut.a_sin
    /\ b_cos = NewDonut.b_cos
    /\ b_sin = NewDonut.b_sin
    /\ output = bufs.output
    /\ zbuf = bufs.zbuf
    /\ pc = "idle"
    /\ jn = 0
    /\ i_n = 0
    /\ j_cos = Lit(1, 0)
    /\ j_sin = 0
    /\ i_cos = Lit(1, 0)
    /\ i_sin = 0
    /\ rotations = 0
    /\ smallOnly = TRUE
    /\ zeroRun = 0
    /\ zeroRef = NewDonut
    /\ entry = NoBuffers
    /\ log = <<>>
    /\ twin = t

Init ==
    /\ cfg \in Configs
    /\ \E bufs \in CallerBuffers(cfg) : InitWith(bufs, NoTwin)

\* donut.rotate(da, db), between two calls of render_frame_in_place.
SetSelf(o) ==
    /\ a_cos' = o.a_cos
    /\ a_sin' = o.a_sin
    /\ b_cos' = o.b_cos
    /\ b_sin' = o.b_sin

RotateSelf(da, db, most) ==
    /\ pc \in {"idle", "done"}
    /\ rotations < most
    /\ SetSelf(Rotated(Self, da, db))
    /\ pc' = "idle"
    /\ rotations' = rotations + 1
    /\ smallOnly' = (smallOnly /\ IsSmall(<<da, db>>))
    /\ zeroRun' = IF da = 0 /\ db = 0 THEN zeroRun + 1 ELSE 0
    /\ zeroRef' = IF da = 0 /\ db = 0 THEN (IF zeroRun = 0 THEN Self ELSE zeroRef)
                  ELSE NewDonut
    /\ entry' = NoBuffers
    /\ log' = <<>>
    /\ UNCHANGED <<cfg, output, zbuf, jn, i_n, j_cos, j_sin, i_cos, i_sin>>

Rotate ==
    \E p \in DeltaPairs : RotateSelf(p[1], p[2], MaxRotations) /\ UNCHANGED twin

\* render_frame_in_place up to the first pass of the loops: the two fills and
\* the locals.  Only a type whose NUM_J and NUM_I evaluate has the function.
RenderBegin ==
    /\ pc \in {"idle", "done"}
    /\ NUM_J(cfg) >= 0
    /\ NUM_I(cfg) >= 0
    /\ entry' = [output |-> output, zbuf |-> zbuf]
    /\ output' = FillOutput(output)
    /\ zbuf' = FillZbuf(zbuf)
    /\ SetLocals(FirstLocals)
    /\ log' = <<>>
    /\ pc' = "render"
    /\ UNCHANGED <<cfg, a_cos, a_sin, b_cos, b_sin, rotations, smallOnly, zeroRun,
                   zeroRef, twin>>

\* One pass of the inner loop's body, and the loops' bookkeeping after it.
Plot(r) ==
    /\ zbuf' = PlotZbuf(zbuf, r)
    /\ output' = PlotOutput(output, r)
    /\ log' = Append(log, r)
    /\ IF Panics(r)
       THEN pc' = "panic" /\ SetLocals(Here)
       ELSE pc' = "render" /\ SetLocals(NextLocals(cfg, Here))

RenderSample ==
    /\ pc = "render"
    /\ jn < NUM_J(cfg)
    /\ Plot(Record(cfg, Self, Here, zbuf))
    /\ UNCHANGED <<cfg, a_cos, a_sin, b_cos, b_sin, rotations, smallOnly, zeroRun,
                   zeroRef, entry, twin>>

\* The outer loop is over: the call returns.
RenderEnd ==
    /\ pc = "render"
    /\ jn >= NUM_J(cfg)
    /\ pc' = "done"
    /\ SetLocals(FirstLocals)
    /\ UNCHANGED <<cfg, a_cos, a_sin, b_cos, b_sin, output, zbuf, rotations,
                   smallOnly, zeroRun, zeroRef, entry, log, twin>>

Next == Rotate \/ RenderBegin \/ RenderSample \/ RenderEnd

Spec == Init /\ [][Next]_vars


-----------------------------------------------------------------------------
(* A caller that only rotates, with more deltas and more calls *)

SpinPairs ==
    DeltaPairs \cup {<<Lit(0, 10000), Lit(0, 100000)>>, <<-Lit(0, 100000), -Lit(0, 50000)>>}

SpinInit == cfg = CfgSmall /\ InitWith(CleanBuffers(cfg), NoTwin)

Spin == \E p \in SpinPairs : RotateSelf(p[1], p[2], MaxSpins) /\ UNCHANGED twin

SpinSpec == SpinInit /\ [][Spin]_vars

-----------------------------------------------------------------------------
(* Two Donuts of one type, the same rotate calls made on both, each rendered
   into its own buffers by a call taken as one step; the two callers' buffers
   hold different values at first *)

TwinOf(o, bufs, fresh) ==
    [o |-> o, output |-> bufs.output, zbuf |-> bufs.zbuf, fresh |-> fresh]

PairInit ==
    /\ cfg \in {CfgSmall, CfgNear}
    /\ \E bufs \in CallerBuffers(cfg) :
           \E other \in CallerBuffers(cfg) \ {bufs} :
               InitWith(bufs, TwinOf(NewDonut, other, FALSE))

PairRotate ==
    \E p \in DeltaPairs :
        /\ RotateSelf(p[1], p[2], MaxPairRotations)
        /\ twin' = TwinOf(Rotated(twin.o, p[1], p[2]), twin, FALSE)

Returned(frame) ==
    /\ output' = frame.output
    /\ zbuf' = frame.zbuf
    /\ pc' = IF frame.panicked THEN "panic" ELSE "done"

RenderWhole ==
    /\ pc = "idle"
    /\ NUM_J(cfg) >= 0
    /\ NUM_I(cfg) >= 0
    /\ entry' = [output |-> output, zbuf |-> zbuf]
    /\ Returned(RenderFrame(cfg, Self, output, zbuf))
    /\ UNCHANGED <<cfg, a_cos, a_sin, b_cos, b_sin, jn, i_n, j_cos, j_sin, i_cos,
                   i_sin, rotations, smallOnly, zeroRun, zeroRef, log, twin>>

TwinRender ==
    /\ pc \in {"idle", "done"}
    /\ ~twin.fresh
    /\ NUM_J(cfg) >= 0
    /\ NUM_I(cfg) >= 0
    /\ twin' = TwinOf(twin.o, RenderFrame(cfg, twin.o, twin.output, twin.zbuf), TRUE)
    /\ UNCHANGED <<cfg, a_cos, a_sin, b_cos, b_sin, output, zbuf, pc, jn, i_n,
                   j_cos, j_sin, i_cos, i_sin, rotations, smallOnly, zeroRun,
                   zeroRef, entry, log>>

PairNext == PairRotate \/ RenderWhole \/ TwinRender

PairSpec == PairInit /\ [][PairNext]_vars


-----------------------------------------------------------------------------
(* What the claims speak of *)

Eps == Scale \div 10000             \* 1e-4

Samples == 1 .. Len(log)
MappedTo(cell) == {k \in Samples : log[k].cell = cell}
Winners(cell) == {k \in MappedTo(cell) : log[k].won}
Least(K) == CHOOSE k \in K : \A m \in K : k <= m
MaxCloseness(K) == CHOOSE d \in {log[k].d : k \in K} : \A m \in K : log[m].d <= d
Positive(K) == {k \in K : FGt(log[k].d, 0)}
HasReturned == pc = "done"

Within(a, b, eps) == Abs(a - b) <= eps
Near(o1, o2) ==
    /\ Within(o1.a_cos, o2.a_cos, Eps)
    /\ Within(o1.a_sin, o2.a_sin, Eps)
    /\ Within(o1.b_cos, o2.b_cos, Eps)
    /\ Within(o1.b_sin, o2.b_sin, Eps)

SquaredNorm(cs, sn) == FAdd(FMul(cs, cs), FMul(sn, sn))

\* C1 as stated: when the call has returned, every cell one or more samples
\* mapped to holds the largest closeness among the samples mapped to it.
C1_DepthIsMaxOfMapped ==
    HasReturned =>
        \A cell \in Cells(cfg) :
            MappedTo(cell) # {} => zbuf[cell] = MaxCloseness(MappedTo(cell))

\* C1 amended: the cell holds the largest positive closeness among the samples
\* mapped to it, and 0 when none of them has a positive closeness.
C1_DepthIsMaxPositiveOfMapped ==
    HasReturned =>
        \A cell \in Cells(cfg) :
            MappedTo(cell) # {} =>
                zbuf[cell] = IF Positive(MappedTo(cell)) = {} THEN 0
                             ELSE MaxCloseness(Positive(MappedTo(cell)))

\* A returned call in which one cell was written twice and a third sample
\* mapped to it lost the depth test, and only samples of negative closeness
\* mapped to another cell.
C1_Witness ==
    /\ HasReturned
    /\ \E cell \in Cells(cfg) :
           /\ Cardinality(Winners(cell)) >= 2
           /\ MappedTo(cell) # Winners(cell)
    /\ \E cell \in Cells(cfg) :
           /\ MappedTo(cell) # {}
           /\ Positive(MappedTo(cell)) = {}

\* C2: when the call has returned, every cell no sample won the depth test for
\* holds depth 0 and the background glyph, whatever the buffers held before.
C2_BufferReset ==
    HasReturned =>
        \A cell \in Cells(cfg) :
            Winners(cell) = {} => zbuf[cell] = 0 /\ output[cell] = BRIGHTNESS_RAMP[1]

\* A returned call that found other values in a cell no sample won.
C2_Witness ==
    /\ HasReturned
    /\ \E cell \in Cells(cfg) :
           /\ Winners(cell) = {}
           /\ entry.zbuf[cell] # 0
           /\ entry.output[cell] # BRIGHTNESS_RAMP[1]

\* C3: the ramp index of every sample that won is its truncated luminance n
\* clamped into 0..12, the ramp is never indexed out of range, and when the call
\* has returned every cell of the glyph buffer holds one of the 13 ramp glyphs.
C3_BrightnessClamp ==
    /\ pc # "panic"
    /\ \A k \in Samples :
           log[k].won =>
               /\ log[k].index \in 0 .. 12
               /\ log[k].n < 0 => log[k].index = 0
               /\ log[k].n > 12 => log[k].index = 12
               /\ log[k].n \in 0 .. 12 => log[k].index = log[k].n
    /\ HasReturned =>
           \A cell \in Cells(cfg) :
               \E i \in 1 .. 13 : output[cell] = BRIGHTNESS_RAMP[i]

\* A returned call with a winning sample of negative luminance, one of
\* luminance far above 12 and one in between.
C3_Witness ==
    /\ HasReturned
    /\ \E k \in Samples : log[k].won /\ log[k].n < 0
    /\ \E k \in Samples : log[k].won /\ log[k].n > 24
    /\ \E k \in Samples : log[k].won /\ log[k].n \in 1 .. 11

\* C4: after rotate(0, 0), once or several times in a row, on any orientation
\* rotate calls lead to, the four fields are within 1e-4 of what they were
\* before.
C4_ZeroRotationKeeps ==
    zeroRun > 0 => Near(Self, zeroRef)

\* C5: after rotate calls with deltas of at most 0.1 in magnitude, however
\* many, cos^2 + sin^2 of each angle is within 1e-4 of 1.
C5_NormStable ==
    smallOnly =>
        /\ Within(SquaredNorm(a_cos, a_sin), Lit(1, 0), Eps)
        /\ Within(SquaredNorm(b_cos, b_sin), Lit(1, 0), Eps)

\* Several rotate calls with small deltas, the fields no longer those of new().
C5_Witness ==
    /\ smallOnly
    /\ rotations >= 3
    /\ zeroRun = 0
    /\ a_sin # 0
    /\ b_sin # 0

\* C6: two Donuts of one type given the same rotate calls hold the same fields,
\* and the frames rendered from them are the same, whatever their buffers held.
C6_Determinism ==
    /\ twin.o = Self
    /\ (HasReturned /\ twin.fresh) => (twin.output = output /\ twin.zbuf = zbuf)

\* Both rendered after a rotation, into buffers that held different values.
C6_Witness ==
    /\ HasReturned
    /\ twin.fresh
    /\ rotations >= 1
    /\ entry.zbuf # [cell \in Cells(cfg) |-> 0]
    /\ \E cell \in Cells(cfg) : output[cell] # BRIGHTNESS_RAMP[1]

ValidStep(step) == step > 0 /\ step < TAU

\* C7: no Donut whose tube or ring step is not strictly positive, or not less
\* than a full turn, is ever rendered.
C7_DegenerateRejected ==
    pc \in {"render", "done", "panic"} => ValidStep(J_STEP(cfg)) /\ ValidStep(I_STEP(cfg))

\* C8: a step of render_frame_in_place leaves the four fields as they are, and
\* the buffers of a returned call are those the current fields alone give: the
\* ones a call on blank, zeroed buffers yields.
C8_FieldsKept ==
    (pc = "render" \/ pc' = "render") =>
        (a_cos' = a_cos /\ a_sin' = a_sin /\ b_cos' = b_cos /\ b_sin' = b_sin)

C8_FrameOfFields ==
    HasReturned =>
        /\ output = RenderFrame(cfg, Self, CleanBuffers(cfg).output, CleanBuffers(cfg).zbuf).output
        /\ zbuf = RenderFrame(cfg, Self, CleanBuffers(cfg).output, CleanBuffers(cfg).zbuf).zbuf

C8_RenderStateless == [][C8_FieldsKept]_vars /\ []C8_FrameOfFields

\* A returned call after a rotation that found a frame or other values in its
\* buffers and wrote a glyph.
C8_Witness ==
    /\ HasReturned
    /\ rotations >= 1
    /\ \E cell \in Cells(cfg) : entry.zbuf[cell] # 0
    /\ \E cell \in Cells(cfg) : output[cell] # BRIGHTNESS_RAMP[1]

\* C9: a pass of the loop body writes a cell only if its sample maps to the cell
\* and its closeness is strictly greater than the depth stored there, and then
\* writes the depth and the glyph; no other cell changes; and when the call has
\* returned, each written cell holds the glyph of the earliest sample that has
\* the cell's final depth.
C9_LastSample == log'[Len(log')]

C9_PassIsStrict ==
    (pc = "render" /\ Len(log') = Len(log) + 1) =>
        /\ C9_LastSample.won =>
               /\ C9_LastSample.cell \in Cells(cfg)
               /\ C9_LastSample.d > zbuf[C9_LastSample.cell]
        /\ \A cell \in Cells(cfg) :
               IF cell = C9_LastSample.cell /\ C9_LastSample.d > zbuf[cell]
               THEN /\ zbuf'[cell] = C9_LastSample.d
                    /\ output'[cell] = BRIGHTNESS_RAMP[C9_LastSample.index + 1]
               ELSE /\ zbuf'[cell] = zbuf[cell]
                    /\ output'[cell] = output[cell]

C9_EarliestKept ==
    HasReturned =>
        \A cell \in Cells(cfg) :
            Winners(cell) # {} =>
                /\ log[Least({k \in MappedTo(cell) : log[k].d = zbuf[cell]})].won
                /\ output[cell] =
                       BRIGHTNESS_RAMP[log[Least({k \in MappedTo(cell) : log[k].d = zbuf[cell]})].index + 1]

C9_StrictDepthTest == [][C9_PassIsStrict]_vars /\ []C9_EarliestKept

\* A returned call in which a later sample had exactly the final depth of a
\* written cell.
C9_Witness ==
    /\ HasReturned
    /\ \E cell \in Cells(cfg) :
           /\ Winners(cell) # {}
           /\ Cardinality({k \in MappedTo(cell) : log[k].d = zbuf[cell]}) >= 2

\* C10: every sample that wrote a cell projects inside the grid, 0 <= px <
\* WIDTH and 0 <= py < HEIGHT, and the cell it wrote is floor(py) * WIDTH +
\* floor(px).
C10_OnlyInsideWritten ==
    \A k \in Samples :
        log[k].won =>
            /\ log[k].px >= 0
            /\ log[k].px < ToF32(cfg.WIDTH)
            /\ log[k].py >= 0
            /\ log[k].py < ToF32(cfg.HEIGHT)
            /\ log[k].cell = (log[k].py \div Scale) * cfg.WIDTH + (log[k].px \div Scale)

=============================================================================
